---- MODULE Spec2Model ----
(***************************************************************************)
(* Model of src/src/components/PerformanceMetrics.tsx: a React component   *)
(* that fetches a metric catalog, waits for an IntersectionObserver to     *)
(* report its region visible, and then counts every metric up from 0 with  *)
(* a 200-step interval timer.                                              *)
(*                                                                         *)
(* Numbers.  A catalog `value` is a JavaScript number; the model keeps it  *)
(* in tenths (value 42 is 420, value 99.9 is 999), so fractional targets   *)
(* are representable.  Displayed values are the integers the code          *)
(* computes with Math.floor / Math.round.  The eased progress              *)
(* 1 - 2^(-10t) * 0.3 is kept in fixed point with 9 decimals; the products *)
(* are split so that every intermediate fits TLC's 32-bit integers.  For   *)
(* every target of the catalogs below and every tick 1..200 the fixed      *)
(* point yields the integers that IEEE double arithmetic yields.           *)
(*                                                                         *)
(* React.  A state setter takes effect in call order, so setMetricsData    *)
(* and setLoading are applied where they are called.  The effects that     *)
(* depend on [hasAnimated] run in a later task than the setHasAnimated     *)
(* call; that re-run is the separate step Commit, and the observer can     *)
(* still deliver a callback before it.  disconnect() drops the entries the *)
(* observer has queued.                                                    *)
(***************************************************************************)
EXTENDS Integers, Sequences, FiniteSets, TLC

VARIABLES
    phase,          \* "new" | "mounted" | "unmounted" | "crashed"
    ioAvailable,    \* does the platform define IntersectionObserver
    catalog,        \* the document /config/metrics.json holds (data.metrics)
    fetchState,     \* "idle" | "pending" | "resolved" | "rejected"
    metricsData,    \* useState<Metric[]>([])
    loading,        \* useState(true)
    hasAnimated,    \* useState(false)
    committed,      \* the hasAnimated value the [hasAnimated] effects last ran for
    sectionRef,     \* element sectionRef.current points at: "null" | "placeholder" | "section"
    finalValues,    \* useRef<number[]>([]), in tenths
    observer,       \* "none" | "observing" | "disconnected"
    obsTarget,      \* element handed to observer.observe
    obsPrev,        \* last intersection state the observer computed: "unset" | "in" | "out"
    entries,        \* IntersectionObserverEntry.isIntersecting values queued for the callback
    visible,        \* the widget's region is inside the viewport (threshold 0.3, margin -100px)
    interval,       \* "none" | "active" | "cleared"
    currentStep,    \* let currentStep of the animation effect
    timersCreated,  \* number of setInterval calls so far
    staleUpdates    \* a state setter was called after the component was removed

vars == << phase, ioAvailable, catalog, fetchState, metricsData, loading,
           hasAnimated, committed, sectionRef, finalValues, observer, obsTarget,
           obsPrev, entries, visible, interval, currentStep, timersCreated,
           staleUpdates >>

----------------------------------------------------------------------------
(* Bounds *)

\* longest queue of undelivered observer entries
MaxEntries == 2

(* Program constants *)

\* const steps = 200
steps == 200

\* fixed-point scales: the eased progress carries 9 decimals, the product
\* targetValue * easedProgress carries 5
Scale == 1000000000
Split == 100000

----------------------------------------------------------------------------
(* Catalogs: inputs the fetch can deliver *)

IconKeys == {"Activity", "Clock", "TrendingUp", "Zap"}

\* iconMap[metric.icon] || iconMap.Activity
iconMap(key) == IF key \in IconKeys THEN key ELSE "Activity"

MetricConfig(id, value, suffix, icon, displayAsK) ==
    [id |-> id, label |-> id, value |-> value, suffix |-> suffix,
     icon |-> icon, color |-> "blue", displayAsK |-> displayAsK]

\* Scenario A of the specification: one metric, value 42, suffix "ms"
CatalogA == << MetricConfig("a", 420, "ms", "Clock", FALSE) >>

\* four metrics, the 4th above the K+ threshold
CatalogB == << MetricConfig("a", 30, "+", "Zap", FALSE),
               MetricConfig("b", 420, "ms", "Clock", FALSE),
               MetricConfig("c", 50, "", "Rocket", FALSE),
               MetricConfig("d", 15000, "+", "TrendingUp", TRUE) >>

\* a standard target of 999 in first place, a fractional small target (4.5),
\* the 4th below the threshold, a 5th metric
CatalogC == << MetricConfig("a", 9990, "%", "Activity", FALSE),
               MetricConfig("b", 45, "x", "Clock", FALSE),
               MetricConfig("c", 60, "s", "Zap", FALSE),
               MetricConfig("d", 5000, "+", "TrendingUp", FALSE),
               MetricConfig("e", 10000, "k", "Zap", TRUE) >>

\* the 4th metric exactly at the threshold, and small targets 0, 1, 2
CatalogD == << MetricConfig("a", 0, "", "Activity", FALSE),
               MetricConfig("b", 10, "", "Clock", FALSE),
               MetricConfig("c", 20, "y", "Zap", FALSE),
               MetricConfig("d", 9990, "+", "TrendingUp", TRUE) >>

\* the 4th metric a small target, 998.5 in 5th place
CatalogE == << MetricConfig("a", 1000, "%", "Activity", FALSE),
               MetricConfig("b", 40, "", "Clock", FALSE),
               MetricConfig("c", 70, "", "Zap", FALSE),
               MetricConfig("d", 30, "h", "TrendingUp", FALSE),
               MetricConfig("e", 9985, "", "Zap", FALSE) >>

\* the 4th metric's target is 1000: it crosses the K+ threshold in mid-animation
CatalogF == << MetricConfig("a", 420, "ms", "Clock", FALSE),
               MetricConfig("b", 30, "", "Zap", FALSE),
               MetricConfig("c", 60, "s", "Activity", FALSE),
               MetricConfig("d", 10000, "+", "TrendingUp", TRUE) >>

Catalogs == { <<>>, CatalogA, CatalogB, CatalogC, CatalogD, CatalogE, CatalogF }

----------------------------------------------------------------------------
(* Pure functions *)

RECURSIVE Pow2(_)
Pow2(n) == IF n = 0 THEN 1 ELSE 2 * Pow2(n - 1)

\* round(0.3 * 2^(-j/20) * 10^9) for j = 0..19
Pow3Table == << 300000000, 289780899, 279909897, 270375139, 261165169,
                252268925, 243675719, 235375229, 227357485, 219612854,
                212132034, 204906039, 197926187, 191184094, 184671662,
                178381067, 172304753, 166435421, 160766019, 155289739 >>

\* Math.pow(2, -10 * t) * 0.3 at t = k / steps, times 10^9
\* (2^(-k/20) = 2^(-(k mod 20)/20) / 2^(k div 20))
PowTerm(k) == Pow3Table[(k % 20) + 1] \div Pow2(k \div 20)

\* easeOutExpoSlow without the `t === 1 ? 1` special case
easeOutExpoSlow_NoEndpoint(k) == Scale - PowTerm(k)

\* easeOutExpoSlow with the sign of the exponential term slipped: 1 + 2^(-10t) * 0.3
easeOutExpoSlow_Plus(k) == IF k = steps THEN Scale ELSE Scale + PowTerm(k)

\* easeOutExpoSlow(k / steps), times 10^9
easeOutExpoSlow(k) == IF k = steps THEN Scale ELSE Scale - PowTerm(k)

\* targetValue * easedProgress, times 10^5, rounded down; target in tenths
RawValue(target, eased) ==
    LET a == eased \div Split
        b == eased % Split
    IN  target * a + ((target * b) \div Split)

\* Math.floor(raw), raw given times 10^5
Floor(raw) == raw \div Split

\* Math.round(raw) for raw >= 0: halves round up
Round(raw) == (raw + (Split \div 2)) \div Split

\* FormatMetric with the K+ threshold compared by <= instead of <
FormatMetric_LooseThreshold(metric, index, target, eased) ==
    LET rawValue == RawValue(target, eased)
    IN  IF index = 3
        THEN IF rawValue <= 999 * Split
             THEN [metric EXCEPT !.value = Floor(rawValue), !.suffix = ""]
             ELSE [metric EXCEPT !.value = 1, !.suffix = "K+"]
        ELSE IF target <= 50
        THEN IF rawValue < Split \div 2
             THEN [metric EXCEPT !.value = 0]
             ELSE IF rawValue < Split + (Split \div 2)
             THEN [metric EXCEPT !.value = 1]
             ELSE IF rawValue < 2 * Split + (Split \div 2)
             THEN [metric EXCEPT !.value = 2]
             ELSE [metric EXCEPT !.value = Round(rawValue)]
        ELSE [metric EXCEPT !.value = Floor(rawValue)]

\* FormatMetric with the snapped values of the 1.5 and 2.5 bands exchanged
FormatMetric_SwappedSnap(metric, index, target, eased) ==
    LET rawValue == RawValue(target, eased)
    IN  IF index = 3
        THEN IF rawValue < 999 * Split
             THEN [metric EXCEPT !.value = Floor(rawValue), !.suffix = ""]
             ELSE [metric EXCEPT !.value = 1, !.suffix = "K+"]
        ELSE IF target <= 50
        THEN IF rawValue < Split \div 2
             THEN [metric EXCEPT !.value = 0]
             ELSE IF rawValue < Split + (Split \div 2)
             THEN [metric EXCEPT !.value = 2]
             ELSE IF rawValue < 2 * Split + (Split \div 2)
             THEN [metric EXCEPT !.value = 1]
             ELSE [metric EXCEPT !.value = Round(rawValue)]
        ELSE [metric EXCEPT !.value = Floor(rawValue)]

\* FormatMetric with the K+ test inverted: the branches of the 4th metric
\* are exchanged
FormatMetric_InvertedThreshold(metric, index, target, eased) ==
    LET rawValue == RawValue(target, eased)
    IN  IF index = 3
        THEN IF rawValue >= 999 * Split
             THEN [metric EXCEPT !.value = Floor(rawValue), !.suffix = ""]
             ELSE [metric EXCEPT !.value = 1, !.suffix = "K+"]
        ELSE IF target <= 50
        THEN IF rawValue < Split \div 2
             THEN [metric EXCEPT !.value = 0]
             ELSE IF rawValue < Split + (Split \div 2)
             THEN [metric EXCEPT !.value = 1]
             ELSE IF rawValue < 2 * Split + (Split \div 2)
             THEN [metric EXCEPT !.value = 2]
             ELSE [metric EXCEPT !.value = Round(rawValue)]
        ELSE [metric EXCEPT !.value = Floor(rawValue)]

\* FormatMetric with the two tests in the other order: a small target is
\* snapped even in 4th place
FormatMetric_SmallFirst(metric, index, target, eased) ==
    LET rawValue == RawValue(target, eased)
    IN  IF target <= 50
        THEN IF rawValue < Split \div 2
             THEN [metric EXCEPT !.value = 0]
             ELSE IF rawValue < Split + (Split \div 2)
             THEN [metric EXCEPT !.value = 1]
             ELSE IF rawValue < 2 * Split + (Split \div 2)
             THEN [metric EXCEPT !.value = 2]
             ELSE [metric EXCEPT !.value = Round(rawValue)]
        ELSE IF index = 3
        THEN IF rawValue < 999 * Split
             THEN [metric EXCEPT !.value = Floor(rawValue), !.suffix = ""]
             ELSE [metric EXCEPT !.value = 1, !.suffix = "K+"]
        ELSE [metric EXCEPT !.value = Floor(rawValue)]

\* FormatMetric with newSuffix initialised to '' instead of metric.suffix
FormatMetric_EmptySuffix(metric, index, target, eased) ==
    LET rawValue == RawValue(target, eased)
    IN  IF index = 3
        THEN IF rawValue < 999 * Split
             THEN [metric EXCEPT !.value = Floor(rawValue), !.suffix = ""]
             ELSE [metric EXCEPT !.value = 1, !.suffix = "K+"]
        ELSE IF target <= 50
        THEN IF rawValue < Split \div 2
             THEN [metric EXCEPT !.value = 0, !.suffix = ""]
             ELSE IF rawValue < Split + (Split \div 2)
             THEN [metric EXCEPT !.value = 1, !.suffix = ""]
             ELSE IF rawValue < 2 * Split + (Split \div 2)
             THEN [metric EXCEPT !.value = 2, !.suffix = ""]
             ELSE [metric EXCEPT !.value = Round(rawValue), !.suffix = ""]
        ELSE [metric EXCEPT !.value = Floor(rawValue), !.suffix = ""]

\* the body of prevMetrics.map((metric, index) => ...), index counted from 0
FormatMetric(metric, index, target, eased) ==
    LET rawValue == RawValue(target, eased)
    IN  IF index = 3
        THEN IF rawValue < 999 * Split
             THEN [metric EXCEPT !.value = Floor(rawValue), !.suffix = ""]
             ELSE [metric EXCEPT !.value = 1, !.suffix = "K+"]
        ELSE IF target <= 50
        THEN IF rawValue < Split \div 2
             THEN [metric EXCEPT !.value = 0]
             ELSE IF rawValue < Split + (Split \div 2)
             THEN [metric EXCEPT !.value = 1]
             ELSE IF rawValue < 2 * Split + (Split \div 2)
             THEN [metric EXCEPT !.value = 2]
             ELSE [metric EXCEPT !.value = Round(rawValue)]
        ELSE [metric EXCEPT !.value = Floor(rawValue)]

\* data.metrics.map(metric => ({ ..., value: 0, ... }))
InitialMetrics(cat) ==
    [i \in 1..Len(cat) |->
        [id |-> cat[i].id, label |-> cat[i].label, value |-> 0,
         suffix |-> cat[i].suffix, icon |-> iconMap(cat[i].icon),
         color |-> cat[i].color]]

\* data.metrics.map(m => m.value)
FinalValuesOf(cat) == [i \in 1..Len(cat) |-> cat[i].value]

\* the setMetricsData updater of one tick; finalValues.current[index] is
\* undefined past the end of finalValues, which the model never reaches
\* because metricsData and finalValues are written together
TickUpdate(prevMetrics, finals, step) ==
    [i \in 1..Len(prevMetrics) |->
        FormatMetric(prevMetrics[i], i - 1, finals[i], easeOutExpoSlow(step))]

----------------------------------------------------------------------------
(* State machine *)

Init ==
    /\ phase = "new"
    /\ ioAvailable \in BOOLEAN
    /\ catalog \in Catalogs
    /\ fetchState = "idle"
    /\ metricsData = <<>>
    /\ loading = TRUE
    /\ hasAnimated = FALSE
    /\ committed = FALSE
    /\ sectionRef = "null"
    /\ finalValues = <<>>
    /\ observer = "none"
    /\ obsTarget = "null"
    /\ obsPrev = "unset"
    /\ entries = <<>>
    /\ visible \in BOOLEAN
    /\ interval = "none"
    /\ currentStep = 0
    /\ timersCreated = 0
    /\ staleUpdates = FALSE

\* Mount with the animation effect's `if (!hasAnimated) return` guard left
\* out: the interval starts with the first render
Mount_NoGuard ==
    /\ phase = "new"
    /\ fetchState' = "pending"
    /\ IF ioAvailable
       THEN /\ phase' = "mounted"
            /\ sectionRef' = "placeholder"
            /\ observer' = "observing"
            /\ obsTarget' = "placeholder"
            /\ interval' = "active"
            /\ timersCreated' = timersCreated + 1
       ELSE /\ phase' = "crashed"
            /\ UNCHANGED << sectionRef, observer, obsTarget, interval, timersCreated >>
    /\ UNCHANGED << ioAvailable, catalog, metricsData, loading, hasAnimated,
                    committed, finalValues, obsPrev, entries, visible,
                    currentStep, staleUpdates >>

\* First render and the three mount effects.  The render returns the loading
\* placeholder, so sectionRef.current is the placeholder when the observer
\* effect runs.  Without IntersectionObserver the constructor call throws
\* inside the effect and React removes the component.
Mount ==
    /\ phase = "new"
    /\ fetchState' = "pending"
    /\ IF ioAvailable
       THEN /\ phase' = "mounted"
            /\ sectionRef' = "placeholder"
            /\ observer' = "observing"
            /\ obsTarget' = "placeholder"
       ELSE /\ phase' = "crashed"
            /\ UNCHANGED << sectionRef, observer, obsTarget >>
    /\ UNCHANGED << ioAvailable, catalog, metricsData, loading, hasAnimated,
                    committed, finalValues, obsPrev, entries, visible, interval,
                    currentStep, timersCreated, staleUpdates >>

\* .then((data) => { finalValues.current = ...; setMetricsData; setLoading(false) })
\* The re-render replaces the placeholder <div> by the <section>.
FetchResolve ==
    /\ fetchState = "pending"
    /\ fetchState' = "resolved"
    /\ finalValues' = FinalValuesOf(catalog)
    /\ IF phase = "mounted"
       THEN /\ metricsData' = InitialMetrics(catalog)
            /\ loading' = FALSE
            /\ sectionRef' = "section"
            /\ UNCHANGED staleUpdates
       ELSE /\ staleUpdates' = TRUE
            /\ UNCHANGED << metricsData, loading, sectionRef >>
    /\ UNCHANGED << phase, ioAvailable, catalog, hasAnimated, committed, observer,
                    obsTarget, obsPrev, entries, visible, interval, currentStep,
                    timersCreated >>

\* FetchReject with setLoading(false) missing from the catch handler
FetchReject_KeepsLoading ==
    /\ fetchState = "pending"
    /\ fetchState' = "rejected"
    /\ IF phase = "mounted"
       THEN UNCHANGED staleUpdates
       ELSE staleUpdates' = TRUE
    /\ UNCHANGED << phase, ioAvailable, catalog, metricsData, loading, sectionRef,
                    hasAnimated, committed, finalValues, observer, obsTarget,
                    obsPrev, entries, visible, interval, currentStep,
                    timersCreated >>

\* .catch(err => { console.error(...); setLoading(false) }): the fetch rejects,
\* res.json() fails to parse, or data.metrics is not an array
FetchReject ==
    /\ fetchState = "pending"
    /\ fetchState' = "rejected"
    /\ IF phase = "mounted"
       THEN /\ loading' = FALSE
            /\ sectionRef' = "section"
            /\ UNCHANGED staleUpdates
       ELSE /\ staleUpdates' = TRUE
            /\ UNCHANGED << loading, sectionRef >>
    /\ UNCHANGED << phase, ioAvailable, catalog, metricsData, hasAnimated, committed,
                    finalValues, observer, obsTarget, obsPrev, entries, visible,
                    interval, currentStep, timersCreated >>

\* the user scrolls the widget's region into or out of view
Scroll ==
    /\ phase = "mounted"
    /\ visible' = ~visible
    /\ UNCHANGED << phase, ioAvailable, catalog, fetchState, metricsData, loading,
                    hasAnimated, committed, sectionRef, finalValues, observer,
                    obsTarget, obsPrev, entries, interval, currentStep,
                    timersCreated, staleUpdates >>

\* the observed element intersects only while it is the element in the document
Intersecting == IF obsTarget = sectionRef /\ visible THEN "in" ELSE "out"

\* The browser recomputes the intersection of the observed element and queues
\* an entry when it changed (always for the first observation).
ObserverNotice ==
    /\ observer = "observing"
    /\ obsPrev # Intersecting
    /\ Len(entries) < MaxEntries
    /\ obsPrev' = Intersecting
    /\ entries' = Append(entries, Intersecting = "in")
    /\ UNCHANGED << phase, ioAvailable, catalog, fetchState, metricsData, loading,
                    hasAnimated, committed, sectionRef, finalValues, observer,
                    obsTarget, visible, interval, currentStep, timersCreated,
                    staleUpdates >>

\* ObserverCallback written as setHasAnimated(entry.isIntersecting): the last
\* entry decides
ObserverCallback_LastEntry ==
    /\ observer = "observing"
    /\ entries # <<>>
    /\ entries' = <<>>
    /\ hasAnimated' = entries[Len(entries)]
    /\ UNCHANGED << phase, ioAvailable, catalog, fetchState, metricsData, loading,
                    committed, sectionRef, finalValues, observer, obsTarget, obsPrev,
                    visible, interval, currentStep, timersCreated, staleUpdates >>

\* entries.forEach(entry => { if (entry.isIntersecting) setHasAnimated(true) })
ObserverCallback ==
    /\ observer = "observing"
    /\ entries # <<>>
    /\ entries' = <<>>
    /\ hasAnimated' = (hasAnimated \/ \E i \in 1..Len(entries) : entries[i])
    /\ UNCHANGED << phase, ioAvailable, catalog, fetchState, metricsData, loading,
                    committed, sectionRef, finalValues, observer, obsTarget, obsPrev,
                    visible, interval, currentStep, timersCreated, staleUpdates >>

\* React re-runs the two [hasAnimated] effects after hasAnimated changed:
\* the observer effect's cleanup disconnects the observer and its body does
\* nothing (hasAnimated is true); the animation effect starts the interval.
Commit ==
    /\ phase = "mounted"
    /\ hasAnimated # committed
    /\ committed' = hasAnimated
    /\ observer' = "disconnected"
    /\ entries' = <<>>
    /\ interval' = "active"
    /\ currentStep' = 0
    /\ timersCreated' = timersCreated + 1
    /\ UNCHANGED << phase, ioAvailable, catalog, fetchState, metricsData, loading,
                    hasAnimated, sectionRef, finalValues, obsTarget, obsPrev, visible,
                    staleUpdates >>

\* Tick with the stop test written currentStep > steps
Tick_ClearLate ==
    /\ interval = "active"
    /\ currentStep' = currentStep + 1
    /\ metricsData' = TickUpdate(metricsData, finalValues, currentStep')
    /\ interval' = IF currentStep' > steps THEN "cleared" ELSE interval
    /\ UNCHANGED << phase, ioAvailable, catalog, fetchState, loading, hasAnimated,
                    committed, sectionRef, finalValues, observer, obsTarget, obsPrev,
                    entries, visible, timersCreated, staleUpdates >>

\* the setInterval callback
Tick ==
    /\ interval = "active"
    /\ currentStep' = currentStep + 1
    /\ metricsData' = TickUpdate(metricsData, finalValues, currentStep')
    /\ interval' = IF currentStep' >= steps THEN "cleared" ELSE interval
    /\ UNCHANGED << phase, ioAvailable, catalog, fetchState, loading, hasAnimated,
                    committed, sectionRef, finalValues, observer, obsTarget, obsPrev,
                    entries, visible, timersCreated, staleUpdates >>

\* Unmount with the animation effect returning no cleanup: the interval
\* is left running
Unmount_NoClear ==
    /\ phase = "mounted"
    /\ phase' = "unmounted"
    /\ sectionRef' = "null"
    /\ IF committed
       THEN UNCHANGED << observer, entries >>
       ELSE /\ observer' = "disconnected"
            /\ entries' = <<>>
    /\ UNCHANGED << ioAvailable, catalog, fetchState, metricsData, loading,
                    hasAnimated, committed, finalValues, obsTarget, obsPrev, visible,
                    interval, currentStep, timersCreated, staleUpdates >>

\* React removes the component and runs the cleanups of the effects as they
\* last ran: observer.disconnect() when the observer effect created one,
\* clearInterval(interval) when the animation effect started one.
Unmount ==
    /\ phase = "mounted"
    /\ phase' = "unmounted"
    /\ sectionRef' = "null"
    /\ IF committed
       THEN /\ interval' = "cleared"
            /\ UNCHANGED << observer, entries >>
       ELSE /\ observer' = "disconnected"
            /\ entries' = <<>>
            /\ UNCHANGED interval
    /\ UNCHANGED << ioAvailable, catalog, fetchState, metricsData, loading,
                    hasAnimated, committed, finalValues, obsTarget, obsPrev, visible,
                    currentStep, timersCreated, staleUpdates >>

Next ==
    \/ Mount
    \/ FetchResolve
    \/ FetchReject
    \/ Scroll
    \/ ObserverNotice
    \/ ObserverCallback
    \/ Commit
    \/ Tick
    \/ Unmount

Spec == Init /\ [][Next]_vars

\* the specification with the scheduling the platform guarantees: a mounted
\* component's effects run, a pending fetch settles, the observer computes and
\* delivers its entries, React commits a state change, an active interval
\* fires.  Scrolling and unmounting are the user's and are not forced.
FairSpec ==
    /\ Spec
    /\ WF_vars(Mount)
    /\ WF_vars(FetchResolve \/ FetchReject)
    /\ WF_vars(ObserverNotice)
    /\ WF_vars(ObserverCallback)
    /\ WF_vars(Commit)
    /\ WF_vars(Tick)

----------------------------------------------------------------------------
(* Properties *)

\* the animation has completed: 200 ticks ran and the timer is stopped
Completed == currentStep = steps /\ interval = "cleared"

\* index i (from 1) is a standard-mode metric: not the 4th, target above 5
StandardMode(i) == i # 4 /\ finalValues[i] > 50

\* index i (from 1) is a small-target metric: not the 4th, target at most 5
SmallTarget(i) == i # 4 /\ finalValues[i] <= 50

\* C1: in every state in which the animation has completed, every loaded
\* standard-mode metric displays exactly its target value, whatever the
\* order of catalog load, trigger and ticks.
C1_CompletedShowsTarget ==
    Completed =>
        \A i \in 1..Len(metricsData) :
            StandardMode(i) => metricsData[i].value * 10 = finalValues[i]

\* C3: the timer never ticks before the trigger has fired, and until it
\* fires every metric shows 0 with the suffix of its definition.
C3_NoTickBeforeTrigger ==
    /\ (currentStep > 0 \/ interval # "none") => hasAnimated
    /\ ~hasAnimated =>
          \A i \in 1..Len(metricsData) :
              /\ metricsData[i].value = 0
              /\ metricsData[i].suffix = catalog[i].suffix

\* C3 witness: the catalog is loaded, the observer has delivered a
\* non-intersecting entry, and the trigger has not fired.
C3_Witness ==
    /\ Len(metricsData) > 0
    /\ obsPrev = "out"
    /\ entries = <<>>
    /\ ~hasAnimated
    /\ phase = "mounted"

\* C7: the trigger fires and the timer ticks only after the catalog load
\* has ended the loading state.
C7_LoadBeforeAnimation ==
    (hasAnimated \/ currentStep > 0) => ~loading

\* C10: a fetch that fails while the widget is mounted leaves it not
\* loading, with no metrics, still in place, whatever fires afterwards.
C10_FailedLoadIsInert ==
    (fetchState = "rejected" /\ ~staleUpdates) =>
        /\ ~loading
        /\ metricsData = <<>>
        /\ phase \in {"mounted", "unmounted"}

\* C10 witness: the fetch failed and the whole animation has run since.
C10_Witness ==
    /\ fetchState = "rejected"
    /\ ~staleUpdates
    /\ Completed
    /\ phase = "mounted"

\* C2: once the catalog is loaded and the region is visible with the
\* trigger still to fire, the trigger fires, the 200 ticks run and every
\* standard-mode metric ends on its target with the suffix of its
\* definition (unless the widget is removed or scrolled away meanwhile).
C2_VisibleLeadsToFinal ==
    [] ( ( /\ phase = "mounted"
           /\ fetchState = "resolved"
           /\ ~loading
           /\ visible
           /\ ~hasAnimated )
         => <> ( \/ phase # "mounted"
                 \/ ~visible
                 \/ /\ Completed
                    /\ \A i \in 1..Len(metricsData) :
                          StandardMode(i) =>
                              /\ metricsData[i].value * 10 = finalValues[i]
                              /\ metricsData[i].suffix = catalog[i].suffix ) )

\* C4: hasAnimated never returns to false, the interval is created at most
\* once and its step never starts over, and once the effects have run for
\* the fired trigger the observer is disconnected with nothing queued, so
\* no callback can follow.
C4_TriggerFiresOnce ==
    [][ /\ hasAnimated => hasAnimated'
        /\ timersCreated' <= 1
        /\ currentStep' >= currentStep
        /\ committed => (observer' = "disconnected" /\ entries' = <<>>) ]_vars

\* C4 witness: the observer saw the placeholder enter and leave again before
\* the trigger's effects ran; the placeholder is visible once more and the
\* animation runs on undisturbed.
C4_Witness ==
    /\ committed
    /\ timersCreated = 1
    /\ obsPrev = "out"
    /\ sectionRef = "placeholder"
    /\ visible
    /\ currentStep > 0
    /\ phase = "mounted"

\* C5: the step counter advances by one per tick and never passes 200, the
\* timer is released exactly when it reaches 200, and a running timer
\* always gets there unless the widget is unmounted.
C5_TimerTerminates ==
    /\ [] ( /\ currentStep <= steps
            /\ interval = "active" => currentStep < steps
            /\ (currentStep = steps) => interval = "cleared" )
    /\ [][ currentStep' # currentStep =>
              (interval = "active" /\ currentStep' = currentStep + 1) ]_vars
    /\ ( (interval = "active") ~> (Completed \/ phase = "unmounted") )

\* C5 witness: all 200 ticks ran on a mounted widget and the timer is released.
C5_Witness ==
    /\ Completed
    /\ phase = "mounted"
    /\ fetchState = "resolved"

\* C6: unmounting leaves no active timer and no observing observer, and
\* nothing ticks or fires afterwards.
C6_UnmountReleases ==
    [][ /\ phase' = "unmounted" =>
              /\ interval' # "active"
              /\ observer' # "observing"
              /\ entries' = <<>>
        /\ phase = "unmounted" =>
              UNCHANGED << currentStep, metricsData, hasAnimated, interval,
                           observer >> ]_vars

\* C6 witness: the widget was unmounted in the middle of the animation.
C6_Witness ==
    /\ phase = "unmounted"
    /\ currentStep > 0
    /\ currentStep < steps
    /\ interval = "cleared"

\* C8: the tick that brings the step to 200 leaves the 4th metric at
\* (1, "K+") when its target is at least 999 and at (floor(target), "")
\* when it is below.
C8_LargeCountFinal ==
    [][ (currentStep' = steps /\ currentStep # steps /\ Len(metricsData') >= 4) =>
            IF finalValues'[4] >= 9990
            THEN metricsData'[4].value = 1 /\ metricsData'[4].suffix = "K+"
            ELSE /\ metricsData'[4].value = finalValues'[4] \div 10
                 /\ metricsData'[4].suffix = "" ]_vars

\* C8 witness: a 4th metric whose target is exactly 999 after the last tick.
C8_Witness ==
    /\ Completed
    /\ Len(metricsData) >= 4
    /\ finalValues[4] = 9990
    /\ metricsData[4].suffix = "K+"

\* C9: no tick lowers the displayed value of a small-target metric.
C9_SmallTargetMonotone ==
    [][ \A i \in 1..Len(metricsData) :
            (currentStep' = currentStep + 1 /\ SmallTarget(i)) =>
                metricsData'[i].value >= metricsData[i].value ]_vars

\* C9 witness: a small-target metric has climbed to 3 or more before the end.
C9_Witness ==
    /\ currentStep < steps
    /\ \E i \in 1..Len(metricsData) :
          SmallTarget(i) /\ metricsData[i].value >= 3

\* C11: where IntersectionObserver is missing, the trigger fires at mount:
\* once the widget has been mounted it stays in place and hasAnimated is
\* true, so the animation is not withheld and no error leaves the widget.
C11_NoObserverFiresAtMount ==
    (~ioAvailable /\ phase # "new") =>
        /\ phase # "crashed"
        /\ hasAnimated

\* C12: once a tick has left the 4th metric at (1, "K+"), every later tick
\* leaves it at (1, "K+"): the display never goes back to a number with an
\* empty suffix.
C12_LargeCountFreezes ==
    [][ ( /\ currentStep' = currentStep + 1
          /\ Len(metricsData) >= 4
          /\ metricsData[4].value = 1
          /\ metricsData[4].suffix = "K+" )
        => ( /\ metricsData'[4].value = 1
             /\ metricsData'[4].suffix = "K+" ) ]_vars

\* C12 witness: a 4th metric with target 1000, which counts numerically up
\* to tick 164, shows "1K+" on a later tick that is not the last.
C12_Witness ==
    /\ Len(metricsData) >= 4
    /\ finalValues[4] = 10000
    /\ currentStep > 165
    /\ currentStep < steps
    /\ metricsData[4].value = 1
    /\ metricsData[4].suffix = "K+"

\* v is raw rounded down, raw given times 10^5
IsFloorOf(v, raw) == v * Split <= raw /\ raw < (v + 1) * Split

\* v is raw rounded to the nearest integer, halves up, raw given times 10^5
IsNearestTo(v, raw) ==
    v * Split <= raw + (Split \div 2) /\ raw + (Split \div 2) < (v + 1) * Split

\* C13: on every tick the 4th metric, and only it, is formatted as a large
\* count (floor with empty suffix below 999, (1, "K+") from 999 on),
\* whatever its target and its displayAsK flag; every other metric keeps
\* its suffix and is snapped to the nearest integer when its target is at
\* most 5 and floored otherwise.
C13_RuleByPosition ==
    [][ currentStep' = currentStep + 1 =>
          \A i \in 1..Len(metricsData') :
            LET raw == RawValue(catalog[i].value, easeOutExpoSlow(currentStep'))
                m   == metricsData'[i]
            IN  IF i = 4
                THEN IF raw < 999 * Split
                     THEN m.suffix = "" /\ IsFloorOf(m.value, raw)
                     ELSE m.suffix = "K+" /\ m.value = 1
                ELSE /\ m.suffix = catalog[i].suffix
                     /\ IF catalog[i].value <= 50
                        THEN IsNearestTo(m.value, raw)
                        ELSE IsFloorOf(m.value, raw) ]_vars

\* C13 witness: a 4th metric with target 3 and displayAsK unset shows the
\* floored 2 with an empty suffix late in the animation, where snapping
\* would show 3 and keep the suffix.
C13_Witness ==
    /\ Len(metricsData) >= 4
    /\ catalog[4].value = 30
    /\ ~catalog[4].displayAsK
    /\ currentStep > 100
    /\ currentStep < steps
    /\ metricsData[4].value = 2
    /\ metricsData[4].suffix = ""

\* C14: a tick keeps the number and order of the metrics and every
\* metric's id, label, color and icon; and in every state every metric but
\* the 4th carries the suffix of its definition.
C14_TickFrame ==
    /\ [] ( \A i \in 1..Len(metricsData) :
              i # 4 => metricsData[i].suffix = catalog[i].suffix )
    /\ [][ currentStep' = currentStep + 1 =>
             /\ Len(metricsData') = Len(metricsData)
             /\ \A i \in 1..Len(metricsData) :
                   /\ metricsData'[i].id = metricsData[i].id
                   /\ metricsData'[i].label = metricsData[i].label
                   /\ metricsData'[i].color = metricsData[i].color
                   /\ metricsData'[i].icon = metricsData[i].icon ]_vars

\* C14 witness: five metrics in mid-animation, the 5th counted up and still
\* with its own suffix, the 4th with its suffix replaced.
C14_Witness ==
    /\ Len(metricsData) = 5
    /\ currentStep > 0
    /\ metricsData[5].value > 0
    /\ metricsData[5].suffix = "k"
    /\ metricsData[4].suffix # catalog[4].suffix

\* C15: the easing at the tick boundaries t = k/200 does not decrease from
\* one tick to the next, lies between 0.7 and 1, is exactly 1 at t = 1, and
\* is 0.7 at t = 0.
C15_EasingShape ==
    /\ easeOutExpoSlow(0) = 7 * (Scale \div 10)
    /\ currentStep >= 1 =>
          /\ easeOutExpoSlow(currentStep) >= easeOutExpoSlow(currentStep - 1)
          /\ easeOutExpoSlow(currentStep) >= 7 * (Scale \div 10)
          /\ easeOutExpoSlow(currentStep) <= Scale
    /\ currentStep = steps => easeOutExpoSlow(currentStep) = Scale

\* C15 witness: the last tick has applied the easing at t = 1 to a loaded
\* metric, which shows its whole target.
C15_Witness ==
    /\ currentStep = steps
    /\ Len(metricsData) >= 1
    /\ metricsData[1].value = 42
    /\ finalValues[1] = 420

IntegerTarget(i) == finalValues[i] % 10 = 0

\* C17: a standard-mode metric with a whole-number target always shows a
\* value from 0 to its target, and no tick lowers it.
C17_StandardBoundedMonotone ==
    /\ [] ( \A i \in 1..Len(metricsData) :
              (StandardMode(i) /\ IntegerTarget(i)) =>
                  /\ metricsData[i].value >= 0
                  /\ metricsData[i].value * 10 <= finalValues[i] )
    /\ [][ currentStep' = currentStep + 1 =>
             \A i \in 1..Len(metricsData) :
                (StandardMode(i) /\ IntegerTarget(i)) =>
                    metricsData'[i].value >= metricsData[i].value ]_vars

\* C17 witness: the metric with target 42 is part of the way up, past the
\* 29 of the first tick.
C17_Witness ==
    /\ Len(metricsData) >= 1
    /\ finalValues[1] = 420
    /\ currentStep > 1
    /\ currentStep < steps
    /\ metricsData[1].value > 29
    /\ metricsData[1].value < 42

====
